---- MODULE Spec2Model ----
(***************************************************************************)
(* Verification model of crypto-agents-prod: the Signal Bus                *)
(* (app/core/signals.py), the worker lifecycle (app/agents/base.py) and    *)
(* the Execution Engine (app/agents/execution.py).                         *)
(*                                                                         *)
(* Quantities are integers (units of the position book).  Prices are       *)
(* integers in ticks of 0.0005, so that mid, k*spread and the basis-point  *)
(* comparison are exact: 100.00 is 200000.                                 *)
(*                                                                         *)
(* The Market Data Gateway and the Exchange Adapter are external           *)
(* collaborators: every call the engine awaits on them either returns      *)
(* (an order book out of Books, the venue's order state) or raises.        *)
(***************************************************************************)
EXTENDS Integers, Sequences, FiniteSets, TLC

\* ------------------------------------------------------------------ bounds
MaxPublish == 2
MaxQueues == 1
MaxIntents == 2
MaxStarts == 2
MaxOrders == 2

\* ------------------------------------------------------- program constants
MAX_POSITION == 50
ORDER_SIZE == 10
MAX_DAILY_LOSS == 100
MAX_SPREAD_BPS_EXEC == 3
NaN == -1

\* POST_ONLY_K = 0.3 and REPRICE_MOVE = 0.5, in tenths
POST_ONLY_K10 == 3
REPRICE_MOVE10 == 5

Symbols == {"BTC/CAD"}
Loops == {1, 2}
Producers == {"indicator", "depth"}
QIds == 1..(MaxQueues + MaxStarts)

\* the event loop a producer's run() is scheduled on
ProducerLoop(p) == IF p = "indicator" THEN 1 ELSE 2

\* Signal(symbol, side, qty, reason, ts); reason names the producer, ts is the
\* publisher's clock reading (the publish counter)
Signal(sym, side, qty, reason, ts) ==
    [symbol |-> sym, side |-> side, qty |-> qty, reason |-> reason, ts |-> ts]

\* the intents a producer may emit
Intents ==
    [symbol : Symbols, side : {"buy", "sell"}, qty : {0 - ORDER_SIZE, 0, MAX_POSITION}]
        \cup {[symbol |-> "XRP/CAD", side |-> "buy", qty |-> 30]}

\* the intents published in LIVE mode
LiveIntents == {[symbol |-> "BTC/CAD", side |-> "buy", qty |-> 2 * ORDER_SIZE]}

\* the books the venue may return while an order is polled
LiveBooks ==
    { [bid |-> 200000, ask |-> 200040],
      [bid |-> 200040, ask |-> 200080],
      [bid |-> 0, ask |-> 0] }

\* the bus never reads an intent: one kind is enough to exercise it
BusIntents == {[symbol |-> "BTC/CAD", side |-> "buy", qty |-> 30]}

VARIABLES
    \* SignalBus
    subs,        \* SignalBus._subs: sequence of [q, loop]
    queues,      \* the asyncio.Queue objects, by identity
    nq,          \* queues created so far
    loopq,       \* per event loop: q.put(sig) coroutines scheduled cross-loop
    closed,      \* event loops that are closed
    pub,         \* per producer: the publish() call in progress
    npub,        \* Signals constructed so far (the clock)
    sent,        \* history: per queue, the ts of the Signals published to it
    overlap,     \* history: some publish() call began while another was running
    subat,       \* history: per queue, the clock when subscribe() returned it
    gone,        \* history: per queue, the clock when unsubscribe() first returned
                 \*          (-1: not yet)
    \* settings
    live,        \* is_live()
    long_only,   \* settings.LONG_ONLY
    \* BaseAgent / ExecutionAgent
    task,        \* self._task: "none", "running" or "done"
    running,     \* self._running
    sub,         \* self._sub (0 is None)
    pc,          \* where run() is suspended, or how its task ended
    getq,        \* the queue the pending self._sub.get() was called on
    positions,   \* run()'s positions dict
    args,        \* symbol, side, qty of the _execute_post_only call in progress
    ob,          \* the last order book fetched (mid, spr and last_mid come from it)
    order_id,    \* _execute_post_only's order_id (0 before the first order)
    filled,      \* from the last fetch_order
    remaining,   \* from the last fetch_order
    \* the venue behind the Exchange Adapter
    orders,      \* every order created; the id is the index
    cancel_sent, \* history: the last order id cancel_order was called with
    \* process-wide state outside the engine
    kill_switch, \* the cap_kill_switch gauge
    realized_day,\* the ledger's realized PnL of the day
    executed,    \* history: ts of the Signals _execute_post_only was called for
    late,        \* history: ts of the Signals published while an order was outstanding
    net_filled,  \* history: per symbol, the net quantity of the fills returned to
                 \* run() since the process began
    \* AgentManager
    insts,       \* every agent instance constructed so far; the index is its identity
    agents,      \* AgentManager._agents: name -> instance
    stopall,     \* the stop_all() call in progress: the index in its list of names of
                 \* the agent whose stop() it awaits (0: no call in progress)
    api,         \* the last start / stop command of the control surface and what
                 \* its handler did with it
    \* Position Ledger
    ledger       \* one symbol's position, average entry price and realized PnL,
                 \* and the history of the fills applied since it was last flat

busVars == <<subs, queues, nq, loopq, closed, pub, npub, sent, overlap, subat, gone>>
cfgVars == <<live, long_only>>
agentVars == <<task, running, sub, pc, getq>>
execVars == <<positions, args, ob, order_id, filled, remaining>>
envVars == <<kill_switch, realized_day>>
histVars == <<cancel_sent, late, executed, net_filled>>
mgrVars == <<insts, agents, stopall, api>>
ledgerVars == <<ledger>>

vars == <<busVars, cfgVars, agentVars, execVars, orders, cancel_sent, envVars, late, executed, net_filled,
          mgrVars, ledgerVars>>
engVars == <<cfgVars, agentVars, execVars, orders, cancel_sent, envVars, late, executed,
             net_filled>>

NoSig == [symbol |-> "", side |-> "", qty |-> 0, sig_qty |-> 0, ts |-> 0]
NoBook == [bid |-> 0, ask |-> 0]

\* ---------------------------------------------------------------- SignalBus

\* sensitivity variant of PutNowait: the item goes to the front of the queue
PutNowaitFront(qs, q, sig) == [qs EXCEPT ![q] = <<sig>> \o @]

\* asyncio.Queue.put_nowait on an unbounded queue
PutNowait(qs, q, sig) == [qs EXCEPT ![q] = Append(@, sig)]

\* sensitivity variant of DeliverOne: nothing is handed to another loop
DeliverOneSameLoop(st, s, cur, sig) ==
    IF cur = s.loop THEN [st EXCEPT !.queues = PutNowait(st.queues, s.q, sig)] ELSE st

\* one iteration of the for loop of publish(): deliver sig to subscriber s
\* from a publisher running on loop cur.  st = [queues, loopq, stale]
DeliverOne(st, s, cur, sig) ==
    IF cur = s.loop
    THEN [st EXCEPT !.queues = PutNowait(st.queues, s.q, sig)]
    ELSE IF s.loop \in closed
         THEN [st EXCEPT !.stale = Append(@, s)]
         ELSE [st EXCEPT !.loopq[s.loop] = Append(@, [q |-> s.q, sig |-> sig])]

\* sensitivity variant of DropStale: every subscriber is removed
DropStaleAll(ss, stale) == SelectSeq(ss, LAMBDA s : FALSE)

\* the stale filter at the end of publish()
DropStale(ss, stale) ==
    SelectSeq(ss, LAMBDA s : \A i \in 1..Len(stale) : stale[i] # s)

\* SignalBus.subscribe() from a coroutine on loop l
BusSubscribe(l) ==
    /\ nq < MaxQueues
    /\ l \notin closed
    /\ nq' = nq + 1
    /\ subs' = Append(subs, [q |-> nq + 1, loop |-> l])
    /\ subat' = [subat EXCEPT ![nq + 1] = npub]
    /\ UNCHANGED <<mgrVars, ledgerVars>>
    /\ UNCHANGED <<queues, loopq, closed, pub, npub, sent, overlap, gone, engVars>>

\* sensitivity variant of Unsubscribed: nothing is removed
UnsubscribedNone(ss, q) == ss

\* SignalBus.unsubscribe(q)
Unsubscribed(ss, q) == SelectSeq(ss, LAMBDA s : s.q # q)

BusUnsubscribe(q) ==
    /\ q \in 1..nq
    /\ subs' = Unsubscribed(subs, q)
    /\ gone' = [gone EXCEPT ![q] = IF @ < 0 THEN npub ELSE @]
    /\ UNCHANGED <<mgrVars, ledgerVars>>
    /\ UNCHANGED <<queues, nq, loopq, closed, pub, npub, sent, overlap, subat, engVars>>

Idle == [pc |-> "idle"]

\* publish(): list(self._subs) is taken, the Signal was built by the caller
PublishBegin(p, i) ==
    /\ pub[p].pc = "idle"
    /\ ProducerLoop(p) \notin closed
    /\ npub < MaxPublish
    /\ npub' = npub + 1
    /\ LET sig == Signal(i.symbol, i.side, i.qty, p, npub + 1)
       IN  /\ pub' = [pub EXCEPT ![p] =
                        [pc |-> "for", sig |-> sig, snap |-> subs, stale |-> <<>>]]
           /\ sent' = [q \in QIds |->
                        IF \E k \in 1..Len(subs) : subs[k].q = q
                        THEN sent[q] \cup {sig.ts} ELSE sent[q]]
    /\ overlap' = (overlap \/ \E o \in Producers : pub[o].pc = "for")
    /\ UNCHANGED <<mgrVars, ledgerVars>>
    /\ UNCHANGED <<subs, queues, nq, loopq, closed, subat, gone, engVars>>

\* publish(): one iteration of the for loop
PublishDeliver(p) ==
    /\ pub[p].pc = "for"
    /\ Len(pub[p].snap) > 0
    /\ LET st == DeliverOne([queues |-> queues, loopq |-> loopq, stale |-> pub[p].stale],
                            Head(pub[p].snap), ProducerLoop(p), pub[p].sig)
       IN  /\ queues' = st.queues
           /\ loopq' = st.loopq
           /\ pub' = [pub EXCEPT ![p].snap = Tail(@), ![p].stale = st.stale]
    /\ UNCHANGED <<mgrVars, ledgerVars>>
    /\ UNCHANGED <<subs, nq, closed, npub, sent, overlap, subat, gone, engVars>>

\* publish(): the loop is over; stale subscribers are removed
PublishEnd(p) ==
    /\ pub[p].pc = "for"
    /\ Len(pub[p].snap) = 0
    /\ subs' = DropStale(subs, pub[p].stale)
    /\ pub' = [pub EXCEPT ![p] = Idle]
    /\ UNCHANGED <<mgrVars, ledgerVars>>
    /\ UNCHANGED <<queues, nq, loopq, closed, npub, sent, overlap, subat, gone, engVars>>

\* event loop l runs the q.put(sig) scheduled by run_coroutine_threadsafe
LoopRunPut(l) ==
    /\ l \notin closed
    /\ Len(loopq[l]) > 0
    /\ queues' = PutNowait(queues, Head(loopq[l]).q, Head(loopq[l]).sig)
    /\ loopq' = [loopq EXCEPT ![l] = Tail(@)]
    /\ UNCHANGED <<mgrVars, ledgerVars>>
    /\ UNCHANGED <<subs, nq, closed, pub, npub, sent, overlap, subat, gone, engVars>>

\* an event loop other than the main one is closed; what was scheduled on it
\* never runs
LoopClose(l) ==
    /\ l # 1
    /\ l \notin closed
    /\ \A p \in Producers : ProducerLoop(p) = l => pub[p].pc = "idle"
    /\ closed' = closed \cup {l}
    /\ loopq' = [loopq EXCEPT ![l] = <<>>]
    /\ UNCHANGED <<mgrVars, ledgerVars>>
    /\ UNCHANGED <<subs, queues, nq, pub, npub, sent, overlap, subat, gone, engVars>>

\* --------------------------------------------------------- order book maths

\* the books the Gateway / Adapter may return; an empty side is price 0
Books ==
    { [bid |-> 200000, ask |-> 200040],
      [bid |-> 200040, ask |-> 200080],
      [bid |-> 200000, ask |-> 200100],
      [bid |-> 200040, ask |-> 200000],
      [bid |-> 0, ask |-> 0] }

\* valid books within the spread ceiling, 1 to 3 bps wide, in ticks of 0.0005
\* (spreads are multiples of 20 ticks so that 0.1, 0.25, 0.3 and 0.5 of a
\* spread are whole ticks)
SimBooks ==
    [bid : {200000, 200020}, ask : {200040, 200060}]
        \cup {[bid |-> 200040, ask |-> 200060]}

Max(a, b) == IF a >= b THEN a ELSE b
Abs(a) == IF a >= 0 THEN a ELSE 0 - a

\* _book_mid_spread: (mid, spr) and whether the book was usable; an unusable
\* book gives mid = spr = nan, spr_bps = inf
BookMidSpread(b) ==
    LET best_bid == IF b.bid # 0 THEN b.bid ELSE NaN
        best_ask == IF b.ask # 0 THEN b.ask ELSE NaN
    IN  IF ~(best_bid > 0 /\ best_ask > 0 /\ best_ask > best_bid)
        THEN [mid |-> NaN, spr |-> NaN, valid |-> FALSE]
        ELSE [mid |-> (best_bid + best_ask) \div 2, spr |-> best_ask - best_bid,
              valid |-> TRUE]

\* spr_bps > MAX_SPREAD_BPS_EXEC, with spr_bps = spr / mid * 1e4 (inf if unusable)
SpreadTooWide(ms) ==
    ~ms.valid \/ ms.spr * 10000 > MAX_SPREAD_BPS_EXEC * ms.mid

\* sensitivity variant of PostOnlyPrice: POST_ONLY_K of 0.4
PostOnlyPriceDeep(side, ms) ==
    IF side = "buy"
    THEN IF ms.valid THEN Max(0, ms.mid - (4 * ms.spr) \div 10) ELSE 0
    ELSE IF ms.valid THEN ms.mid + (4 * ms.spr) \div 10 ELSE NaN

\* _post_only_price; max(0.0, nan) is 0.0 and nan + x is nan
PostOnlyPrice(side, ms) ==
    IF side = "buy"
    THEN IF ms.valid THEN Max(0, ms.mid - (POST_ONLY_K10 * ms.spr) \div 10) ELSE 0
    ELSE IF ms.valid THEN ms.mid + (POST_ONLY_K10 * ms.spr) \div 10 ELSE NaN

\* adverse_move > REPRICE_MOVE * spr; any comparison with nan is false
AdverseMove(old, new) ==
    /\ old.valid
    /\ new.valid
    /\ 10 * Abs(new.mid - old.mid) > REPRICE_MOVE10 * new.spr

\* the PAPER branch of _execute_post_only; fees in 1e-4 price ticks
PaperFill(side, qty, ms) ==
    LET limit_px == PostOnlyPrice(side, ms)
        simulated_mid_move == ms.spr \div 4
        exec_price == IF side = "buy"
                      THEN ms.mid - ms.spr \div 10 - simulated_mid_move
                      ELSE ms.mid + ms.spr \div 10 + simulated_mid_move
        maker_fill == \/ side = "buy" /\ exec_price <= limit_px
                      \/ side = "sell" /\ exec_price >= limit_px
        penalty == ms.spr \div 2
        px == IF maker_fill THEN limit_px
              ELSE IF side = "buy" THEN exec_price + penalty ELSE exec_price - penalty
    IN  [filled |-> qty, avg_px |-> px,
         fees |-> IF maker_fill THEN 0 ELSE 6 * Abs(px * qty),
         maker |-> maker_fill]

\* ----------------------------------------------------------- run(): risk gate

\* qty = float(sig.qty or order_size)
SigQty(sig) == IF sig.qty = 0 THEN ORDER_SIZE ELSE sig.qty

\* sensitivity variant of LongOnlyReject: only a short position is guarded
LongOnlyRejectShortOnly(sig, pos) == long_only /\ sig.side = "sell" /\ pos < 0

\* the long-only guard
LongOnlyReject(sig, pos) == long_only /\ sig.side = "sell" /\ pos <= 0

\* sensitivity variant of ClipQty: the quantity is never clipped
ClipQtyNever(side, qty, pos) == qty

\* the position cap: the quantity run() goes on with
ClipQty(side, qty, pos) ==
    IF side = "buy" /\ pos + qty > MAX_POSITION
    THEN Max(0, MAX_POSITION - pos)
    ELSE qty

\* the position cap: skip the intent
CapReject(side, qty, pos) ==
    side = "buy" /\ pos + qty > MAX_POSITION /\ ClipQty(side, qty, pos) <= 0

\* delta = qty if side == "buy" else -qty; positions[sig.symbol] += delta
ApplyFill(pos, a) ==
    [pos EXCEPT ![a.symbol] = @ + (IF a.side = "buy" THEN a.qty ELSE 0 - a.qty)]

\* run() skips the intent: the log line (if any), then continue
Skip(why) ==
    /\ pc' = why
    /\ getq' = 0
    /\ args' = NoSig

\* run() is about to go round the while loop
ContinuePcs == {"ignored", "long_only", "capped", "nofill", "filled"}

LivePcs == {"create", "fetch", "book", "cancel", "recreate", "sleep"}

\* an order of this call is outstanding at the venue
Outstanding == pc \in LivePcs /\ order_id # 0

\* ------------------------------------------- BaseAgent / ExecutionAgent

\* the frame of _execute_post_only is gone
ExecLocalsGone ==
    /\ ob' = NoBook
    /\ order_id' = 0
    /\ filled' = 0
    /\ remaining' = 0

NoLocals ==
    /\ args' = NoSig
    /\ ExecLocalsGone

\* the task ends (cancelled or crashed): _run_wrapper's finally clears _running
\* and the frames of run() and _execute_post_only are gone
TaskEnds(how) ==
    /\ task' = "done"
    /\ running' = FALSE
    /\ pc' = how
    /\ getq' = 0
    /\ positions' = [s \in Symbols |-> 0]
    /\ NoLocals

\* ExecutionAgent.start(): BaseAgent.start(), then subscribe to the bus
Start ==
    /\ nq < MaxStarts
    /\ IF task = "running"
       THEN UNCHANGED <<task, running, pc, getq, execVars>>
       ELSE /\ running' = TRUE
            /\ task' = "running"
            /\ pc' = "get"
            /\ getq' = nq + 1
            /\ positions' = [s \in Symbols |-> 0]
            /\ NoLocals
    /\ nq' = nq + 1
    /\ sub' = nq + 1
    /\ subs' = Append(subs, [q |-> nq + 1, loop |-> 1])
    /\ UNCHANGED <<mgrVars, ledgerVars>>
    /\ UNCHANGED <<queues, loopq, closed, pub, npub, sent, overlap, subat, gone, cfgVars, orders, envVars, histVars>>

\* ExecutionAgent.stop(): unsubscribe, then BaseAgent.stop() cancels the task
Stop ==
    /\ subs' = IF sub # 0 THEN Unsubscribed(subs, sub) ELSE subs
    /\ IF task = "running"
       THEN TaskEnds("cancelled")
       ELSE /\ running' = FALSE
            /\ UNCHANGED <<task, pc, getq, execVars>>
    /\ UNCHANGED <<mgrVars, ledgerVars>>
    /\ UNCHANGED <<queues, nq, loopq, closed, pub, npub, sent, overlap, subat, gone, cfgVars, sub, orders,
                   envVars, histVars>>

\* publish() called from a coroutine of loop cur, run to its end: the whole for loop
RECURSIVE DeliverAll(_, _, _, _)
DeliverAll(st, ss, cur, sig) ==
    IF Len(ss) = 0 THEN st
    ELSE DeliverAll(DeliverOne(st, Head(ss), cur, sig), Tail(ss), cur, sig)

\* a producer of the engine's event loop publishes an intent
Publish(p, i) ==
    /\ ProducerLoop(p) = 1
    /\ npub < MaxIntents
    /\ npub' = npub + 1
    /\ LET sig == Signal(i.symbol, i.side, i.qty, p, npub + 1)
           st == DeliverAll([queues |-> queues, loopq |-> loopq, stale |-> <<>>],
                            subs, ProducerLoop(p), sig)
       IN  /\ queues' = st.queues
           /\ loopq' = st.loopq
           /\ subs' = DropStale(subs, st.stale)
    /\ late' = IF Outstanding THEN late \cup {npub + 1} ELSE late
    /\ UNCHANGED <<mgrVars, ledgerVars>>
    /\ UNCHANGED <<nq, closed, pub, sent, overlap, subat, gone, cfgVars, agentVars, execVars, orders, cancel_sent,
                   executed, net_filled, envVars>>

\* run(): self._sub.get() returns; the guards up to the call of _execute_post_only
RunGet ==
    /\ task = "running"
    /\ pc = "get"
    /\ getq # 0
    /\ Len(queues[getq]) > 0
    /\ queues' = [queues EXCEPT ![getq] = Tail(@)]
    /\ LET sig == Head(queues[getq])
           side == sig.side
           qty == SigQty(sig)
       IN  IF sig.symbol \notin Symbols
           THEN Skip("ignored")
           ELSE IF LongOnlyReject(sig, positions[sig.symbol])
           THEN Skip("long_only")
           ELSE IF CapReject(side, qty, positions[sig.symbol])
           THEN Skip("capped")
           ELSE /\ pc' = "ob"
                /\ args' = [symbol |-> sig.symbol, side |-> side,
                            qty |-> ClipQty(side, qty, positions[sig.symbol]),
                            sig_qty |-> sig.qty, ts |-> sig.ts]
                /\ getq' = 0
    /\ executed' = IF pc' = "ob" THEN executed \cup {Head(queues[getq]).ts} ELSE executed
    /\ UNCHANGED <<mgrVars, ledgerVars>>
    /\ UNCHANGED <<subs, nq, loopq, closed, pub, npub, sent, overlap, subat, gone, cfgVars, task, running, sub,
                   positions, ob, order_id, filled, remaining, orders, envVars, cancel_sent,
                   late, net_filled>>

\* run() goes round the while loop: the next await self._sub.get()
RunContinue ==
    /\ task = "running"
    /\ pc \in ContinuePcs
    /\ pc' = "get"
    /\ getq' = sub
    /\ args' = NoSig
    /\ UNCHANGED <<mgrVars, ledgerVars>>
    /\ UNCHANGED <<busVars, cfgVars, task, running, sub, positions, ob, order_id, filled,
                   remaining, orders, envVars, histVars>>

\* the fills returned so far, with one more: a buy adds what was filled, a
\* sell takes it off; a result with nothing filled is no fill
Filled(net, a, fill) ==
    IF fill.filled <= 0 THEN net
    ELSE [net EXCEPT ![a.symbol] =
            @ + (IF a.side = "buy" THEN fill.filled ELSE 0 - fill.filled)]

\* sensitivity variant of ReturnFill: every result is applied to positions
ReturnFillAlways(fill) ==
    /\ positions' = ApplyFill(positions, args)
    /\ net_filled' = Filled(net_filled, args, fill)
    /\ pc' = "filled"
    /\ ExecLocalsGone
    /\ UNCHANGED <<getq, args>>

\* _execute_post_only returns to run(): a zero fill is skipped, any other is
\* applied to positions and logged
ReturnFill(fill) ==
    /\ positions' = IF fill.filled <= 0 THEN positions ELSE ApplyFill(positions, args)
    /\ net_filled' = Filled(net_filled, args, fill)
    /\ pc' = IF fill.filled <= 0 THEN "nofill" ELSE "filled"
    /\ ExecLocalsGone
    /\ UNCHANGED <<getq, args>>

ZeroFill == [filled |-> 0, avg_px |-> NaN, fees |-> 0, maker |-> TRUE]

\* _execute_post_only: pricefeed.get_orderbook returns; the spread check; the
\* whole PAPER branch
ExecOrderbook(b) ==
    /\ task = "running"
    /\ pc = "ob"
    /\ LET ms == BookMidSpread(b)
       IN  IF SpreadTooWide(ms)
           THEN ReturnFill(ZeroFill)
           ELSE IF live
           THEN /\ pc' = "create"
                /\ ob' = b
                /\ UNCHANGED <<getq, positions, args, order_id, filled, remaining, net_filled>>
           ELSE ReturnFill(PaperFill(args.side, args.qty, ms))
    /\ UNCHANGED <<mgrVars, ledgerVars>>
    /\ UNCHANGED <<busVars, cfgVars, task, running, sub, orders, envVars, cancel_sent, late,
                   executed>>

NewOrder(side, amount, price) ==
    [side |-> side, amount |-> amount, price |-> price, filled |-> 0,
     status |-> "open"]

\* exchange.create_order returns the first order of the call
ExecCreate ==
    /\ task = "running"
    /\ pc = "create"
    /\ args.qty > 0
    /\ Len(orders) < MaxOrders
    /\ orders' = Append(orders,
                   NewOrder(args.side, args.qty, PostOnlyPrice(args.side, BookMidSpread(ob))))
    /\ order_id' = Len(orders) + 1
    /\ pc' = "fetch"
    /\ UNCHANGED <<mgrVars, ledgerVars>>
    /\ UNCHANGED <<busVars, cfgVars, task, running, sub, getq, positions, args, ob, filled,
                   remaining, envVars, histVars>>

\* exchange.fetch_order returns
ExecFetchOrder ==
    /\ task = "running"
    /\ pc = "fetch"
    /\ filled' = orders[order_id].filled
    /\ remaining' = orders[order_id].amount - orders[order_id].filled
    /\ pc' = "book"
    /\ UNCHANGED <<mgrVars, ledgerVars>>
    /\ UNCHANGED <<busVars, cfgVars, task, running, sub, getq, positions, args, ob,
                   order_id, orders, envVars, histVars>>

\* exchange.fetch_order_book returns: fully filled, reprice, or sleep.
\* timeout is what (time.time() - start_ts) > REPRICE_SECS evaluates to
ExecFetchBook(b, timeout) ==
    /\ task = "running"
    /\ pc = "book"
    /\ IF filled > 0 /\ remaining <= 0
       THEN ReturnFill([filled |-> filled, avg_px |-> orders[order_id].price,
                        fees |-> 0, maker |-> TRUE])
       ELSE /\ ob' = b
            /\ pc' = IF \/ timeout
                        \/ AdverseMove(BookMidSpread(ob), BookMidSpread(b))
                     THEN "cancel" ELSE "sleep"
            /\ UNCHANGED <<getq, positions, args, order_id, filled, remaining, net_filled>>
    /\ UNCHANGED <<mgrVars, ledgerVars>>
    /\ UNCHANGED <<busVars, cfgVars, task, running, sub, orders, envVars, cancel_sent, late,
                   executed>>

\* exchange.cancel_order returns or raises; the exception is swallowed
ExecCancel(ok) ==
    /\ task = "running"
    /\ pc = "cancel"
    /\ orders' = [orders EXCEPT ![order_id] =
                    [@ EXCEPT !.status = IF ok /\ @ = "open" THEN "canceled" ELSE @]]
    /\ cancel_sent' = order_id
    /\ pc' = "recreate"
    /\ UNCHANGED <<mgrVars, ledgerVars>>
    /\ UNCHANGED <<busVars, cfgVars, task, running, sub, getq, execVars, envVars, late,
                   executed, net_filled>>

\* exchange.create_order returns the replacement order
ExecRecreate ==
    /\ task = "running"
    /\ pc = "recreate"
    /\ Len(orders) < MaxOrders
    /\ LET amount == IF remaining > 0 THEN remaining ELSE args.qty
       IN  orders' = Append(orders,
                       NewOrder(args.side, amount, PostOnlyPrice(args.side, BookMidSpread(ob))))
    /\ order_id' = Len(orders) + 1
    /\ pc' = "sleep"
    /\ UNCHANGED <<mgrVars, ledgerVars>>
    /\ UNCHANGED <<busVars, cfgVars, task, running, sub, getq, positions, args, ob, filled,
                   remaining, envVars, histVars>>

\* asyncio.sleep(0.5) is over
ExecSleep ==
    /\ task = "running"
    /\ pc = "sleep"
    /\ pc' = "fetch"
    /\ UNCHANGED <<mgrVars, ledgerVars>>
    /\ UNCHANGED <<busVars, cfgVars, task, running, sub, getq, positions, args, ob,
                   order_id, filled, remaining, orders, envVars, histVars>>

\* an awaited Gateway / Adapter call raises: run() dies in _run_wrapper
Crash ==
    /\ task = "running"
    /\ pc \in {"ob", "create", "fetch", "book", "recreate"}
    /\ TaskEnds("crashed")
    /\ UNCHANGED <<mgrVars, ledgerVars>>
    /\ UNCHANGED <<busVars, cfgVars, sub, orders, envVars, histVars>>

\* ------------------------------------------------------------ environment

\* the venue fills part or all of an open order
VenueFill(i, k) ==
    /\ i \in 1..Len(orders)
    /\ orders[i].status = "open"
    /\ k > 0
    /\ k <= orders[i].amount - orders[i].filled
    /\ orders' = [orders EXCEPT ![i] =
                    [@ EXCEPT !.filled = @ + k,
                              !.status = IF orders[i].filled + k = orders[i].amount
                                         THEN "closed" ELSE "open"]]
    /\ UNCHANGED <<mgrVars, ledgerVars>>
    /\ UNCHANGED <<busVars, cfgVars, agentVars, execVars, envVars, histVars>>

\* the operator sets / clears the kill switch
KillSwitchSet ==
    /\ kill_switch = 0
    /\ kill_switch' = 1
    /\ UNCHANGED <<mgrVars, ledgerVars>>
    /\ UNCHANGED <<busVars, cfgVars, agentVars, execVars, orders, realized_day, histVars>>

KillSwitchClear ==
    /\ kill_switch = 1
    /\ kill_switch' = 0
    /\ UNCHANGED <<mgrVars, ledgerVars>>
    /\ UNCHANGED <<busVars, cfgVars, agentVars, execVars, orders, realized_day, histVars>>

\* the ledger books a realized loss of the size of the daily limit
LedgerLoss ==
    /\ realized_day > 0 - MAX_DAILY_LOSS
    /\ realized_day' = realized_day - MAX_DAILY_LOSS
    /\ UNCHANGED <<mgrVars, ledgerVars>>
    /\ UNCHANGED <<busVars, cfgVars, agentVars, execVars, orders, kill_switch, histVars>>

\* ------------------------------------------------------------- AgentManager

MaxUpdates == 1

\* the agents enabled in agents.json, in build_all's order: the default ones
\* and the depth producer
NameSeq == <<"depth", "indicator", "execution">>
Names == {NameSeq[k] : k \in 1..Len(NameSeq)}
InstIds == 1..(Len(NameSeq) * (MaxUpdates + 1))

\* BaseAgent.__init__: no task, _running clear.  cancelling says task.cancel()
\* was called and CancelledError is not yet delivered to run(), wherever it is
\* suspended; ended how the last task ended; stop the stop() call on this
\* instance: "none", "pending" (a task created for it that has not run yet)
\* or "await" (it awaits the task it cancelled); restarted says start() has
\* created a new task while that stop() was awaiting the old one
NewAgent(n) ==
    [name |-> n, task |-> "none", running |-> FALSE, cancelling |-> FALSE,
     ended |-> "", stop |-> "none", restarted |-> FALSE]

\* BaseAgent.status
Status(a) == IF a.task = "running" /\ a.running THEN "running" ELSE "stopped"

\* BaseAgent.start
Started(a) ==
    IF a.task = "running" THEN a
    ELSE [a EXCEPT !.running = TRUE, !.task = "running", !.cancelling = FALSE,
                   !.ended = "", !.restarted = (a.stop = "await")]

\* sensitivity variant of RunWrapperEnds: the exception is swallowed in run()
RunWrapperGoesOn(a, how) == a

\* _run_wrapper: run() is left by an exception; finally clears _running
RunWrapperEnds(a, how) ==
    [a EXCEPT !.task = "done", !.running = FALSE, !.cancelling = FALSE, !.ended = how]

\* sensitivity variant of Crashed: the fault ends every worker
CrashedAll(ins, i) == [k \in 1..Len(ins) |-> RunWrapperEnds(ins[k], "crashed")]

\* a fault escapes run() of instance i
Crashed(ins, i) == [ins EXCEPT ![i] = RunWrapperEnds(@, "crashed")]

\* BaseAgent.stop up to its await: clear _running, cancel the task if there
\* is one running; without one stop() returns at once
StopBegin(a) ==
    IF a.task = "running"
    THEN [a EXCEPT !.running = FALSE, !.cancelling = TRUE, !.stop = "await",
                   !.restarted = FALSE]
    ELSE [a EXCEPT !.running = FALSE, !.stop = "none", !.restarted = FALSE]

\* build_all: a new instance for every enabled name
BuildAll(ins) == ins \o [k \in 1..Len(NameSeq) |-> NewAgent(NameSeq[k])]

\* AgentManager.start(name), from any request handler, also while a stop()
\* of the same worker is awaiting
MgrStart(n) ==
    /\ stopall = 0
    /\ insts' = [insts EXCEPT ![agents[n]] = Started(@)]
    /\ UNCHANGED <<agents, stopall, api, busVars, engVars, ledgerVars>>

\* AgentManager.stop(name), one call per worker at a time
MgrStop(n) ==
    /\ stopall = 0
    /\ insts[agents[n]].stop = "none"
    /\ insts' = [insts EXCEPT ![agents[n]] = StopBegin(@)]
    /\ UNCHANGED <<agents, stopall, api, busVars, engVars, ledgerVars>>

\* something awaited by run() of instance i raises and run() does not catch it
Fault(i) ==
    /\ i \in 1..Len(insts)
    /\ insts[i].task = "running"
    /\ ~insts[i].cancelling
    /\ insts' = Crashed(insts, i)
    /\ UNCHANGED <<agents, stopall, api, busVars, engVars, ledgerVars>>

\* CancelledError is delivered at the await run() is suspended on
TaskCancelled(i) ==
    /\ i \in 1..Len(insts)
    /\ insts[i].task = "running"
    /\ insts[i].cancelling
    /\ insts' = [insts EXCEPT ![i] = RunWrapperEnds(@, "cancelled")]
    /\ UNCHANGED <<agents, stopall, api, busVars, engVars, ledgerVars>>

\* BaseAgent.stop: the task it cancelled is done, await self._task is over
\* and stop() returns
StopReturn(i) ==
    /\ i \in 1..Len(insts)
    /\ insts[i].stop = "await"
    /\ insts[i].restarted \/ insts[i].task # "running"
    /\ insts' = [insts EXCEPT ![i].stop = "none", ![i].restarted = FALSE]
    /\ UNCHANGED <<agents, stopall, api, busVars, engVars, ledgerVars>>

\* the task update_config created for stop() gets to run
StopTaskRuns(i) ==
    /\ i \in 1..Len(insts)
    /\ insts[i].stop = "pending"
    /\ insts' = [insts EXCEPT ![i] = StopBegin(@)]
    /\ UNCHANGED <<agents, stopall, api, busVars, engVars, ledgerVars>>

\* AgentManager.update_config(name, cfg): create_task(old.stop()), then
\* build_all()
UpdateConfig(n) ==
    /\ stopall = 0
    /\ Len(insts) < Len(NameSeq) * (MaxUpdates + 1)
    /\ insts' = BuildAll([insts EXCEPT ![agents[n]].stop =
                            IF @ = "none" THEN "pending" ELSE @])
    /\ agents' = [m \in Names |->
                    Len(insts) + CHOOSE k \in 1..Len(NameSeq) : NameSeq[k] = m]
    /\ UNCHANGED <<stopall, api, busVars, engVars, ledgerVars>>

\* stop_all() calls stop() of the k-th agent of its list: BaseAgent.stop up to
\* its await, unless a stop() of that agent is already waiting
StopAllCalls(ins, k) ==
    [ins EXCEPT ![agents[NameSeq[k]]] = IF @.stop = "none" THEN StopBegin(@) ELSE @]

\* AgentManager.stop_all() is called: list(self._agents.keys()), stop() of
\* the first.  No other manager call is made until it has returned
StopAllBegin ==
    /\ stopall = 0
    /\ stopall' = 1
    /\ insts' = StopAllCalls(insts, 1)
    /\ UNCHANGED <<agents, api, busVars, engVars, ledgerVars>>

\* stop_all(): the stop() it awaited has returned; stop() of the next agent,
\* or the end of the loop
StopAllNext ==
    /\ stopall > 0
    /\ insts[agents[NameSeq[stopall]]].stop = "none"
    /\ IF stopall < Len(NameSeq)
       THEN /\ stopall' = stopall + 1
            /\ insts' = StopAllCalls(insts, stopall + 1)
       ELSE /\ stopall' = 0
            /\ insts' = insts
    /\ UNCHANGED <<agents, api, busVars, engVars, ledgerVars>>

\* ---------------------------------------------------------- control surface

\* the names a command may carry: the listed agents and one that is not listed
ApiNames == Names \cup {"market_scanner"}

\* a command and what its handler did: "not_found" (404), "refused" (409,
\* kill switch enabled) or "called" (it called the manager)
Call(cmd, name, outcome) == [cmd |-> cmd, name |-> name, outcome |-> outcome]
NoCall == Call("", "", "")

\* manager.start_all(): start() of every listed agent, in turn; none of them
\* suspends
StartedAll(ins) ==
    [i \in 1..Len(ins) |->
        IF \E n \in DOMAIN agents : agents[n] = i THEN Started(ins[i]) ELSE ins[i]]

\* POST /api/agents/start/{name}
ApiAgentStart(n) ==
    /\ stopall = 0
    /\ IF n \notin DOMAIN agents
       THEN api' = Call("start", n, "not_found") /\ insts' = insts
       ELSE IF kill_switch = 1
       THEN api' = Call("start", n, "refused") /\ insts' = insts
       ELSE /\ api' = Call("start", n, "called")
            /\ insts' = [insts EXCEPT ![agents[n]] = Started(@)]
    /\ UNCHANGED <<agents, stopall, busVars, engVars, ledgerVars>>

\* sensitivity variant of ApiAgentsStartAll: the alias calls the manager
\* without reading the gauge
ApiAgentsStartAllUnchecked(cmd) ==
    /\ stopall = 0
    /\ api' = Call(cmd, "", "called")
    /\ insts' = StartedAll(insts)
    /\ UNCHANGED <<agents, stopall, busVars, engVars, ledgerVars>>

\* POST /api/agents/start_all and its UI alias POST /api/agents/start
ApiAgentsStartAll(cmd) ==
    /\ stopall = 0
    /\ IF kill_switch = 1
       THEN api' = Call(cmd, "", "refused") /\ insts' = insts
       ELSE api' = Call(cmd, "", "called") /\ insts' = StartedAll(insts)
    /\ UNCHANGED <<agents, stopall, busVars, engVars, ledgerVars>>

\* POST /api/agents/stop/{name}, up to the await in BaseAgent.stop
ApiAgentStop(n) ==
    /\ stopall = 0
    /\ IF n \notin DOMAIN agents
       THEN api' = Call("stop", n, "not_found") /\ insts' = insts
       ELSE /\ insts[agents[n]].stop = "none"
            /\ api' = Call("stop", n, "called")
            /\ insts' = [insts EXCEPT ![agents[n]] = StopBegin(@)]
    /\ UNCHANGED <<agents, stopall, busVars, engVars, ledgerVars>>

\* POST /api/agents/stop_all and its UI alias POST /api/agents/stop, up to the
\* first await of stop_all()
ApiAgentsStopAll(cmd) ==
    /\ stopall = 0
    /\ api' = Call(cmd, "", "called")
    /\ stopall' = 1
    /\ insts' = StopAllCalls(insts, 1)
    /\ UNCHANGED <<agents, busVars, engVars, ledgerVars>>

\* AgentManager.__init__: build_all
MgrInit ==
    /\ stopall = 0
    /\ api = NoCall
    /\ insts = BuildAll(<<>>)
    /\ agents = [m \in Names |-> CHOOSE k \in 1..Len(NameSeq) : NameSeq[k] = m]

\* ---------------------------------------------------------- Position Ledger

MaxFills == 3

\* the fills the engine may commit: side, quantity and price
FillQtys == {1, 2, 3}
FillPrices == {100, 102, 105}

Min(a, b) == IF a <= b THEN a ELSE b

RECURSIVE GCD(_, _)
GCD(a, b) == IF b = 0 THEN a ELSE GCD(b, a % b)

\* prices, the average entry price and PnL are fractions n/d in lowest terms,
\* d > 0: the weighted average is exact
Rat(n, d) == LET g == GCD(Abs(n), d) IN [n |-> n \div g, d |-> d \div g]
RatZero == [n |-> 0, d |-> 1]
RatAdd(x, y) == Rat(x.n * y.d + y.n * x.d, x.d * y.d)
RatSub(x, y) == Rat(x.n * y.d - y.n * x.d, x.d * y.d)
RatTimes(x, k) == Rat(x.n * k, x.d)
RatOver(x, k) == Rat(x.n, x.d * k)

\* a flat position
FlatPosition == [quantity |-> 0, average_entry_price |-> RatZero, realized_pnl_day |-> RatZero]

\* sensitivity variant of LedgerBuy: the plain mean of the old average and the
\* fill price
LedgerBuyPlainMean(p, quantity, price) ==
    [p EXCEPT !.quantity = @ + quantity,
              !.average_entry_price =
                  IF p.quantity = 0 THEN price ELSE RatOver(RatAdd(@, price), 2)]

\* applyFill, buy: new position = old + quantity, new average price =
\* (old_avg*old_qty + price*quantity) / new_qty, guarded against a zero
\* denominator
LedgerBuy(p, quantity, price) ==
    LET new_qty == p.quantity + quantity
    IN  [p EXCEPT !.quantity = new_qty,
                  !.average_entry_price =
                      IF new_qty <= 0 THEN RatZero
                      ELSE RatOver(RatAdd(RatTimes(@, p.quantity), RatTimes(price, quantity)),
                                   new_qty)]

\* sensitivity variant of LedgerSell: PnL is taken against the fill price of
\* the sell and the average price is kept
LedgerSellKeepsAverage(p, quantity, price) ==
    [p EXCEPT !.quantity = Max(@ - quantity, 0),
              !.realized_pnl_day = RatAdd(@, RatTimes(price, Min(quantity, Max(p.quantity, 0))))]

\* applyFill, sell: closing quantity = min(quantity, max(old, 0)), realized
\* PnL delta = (price - old_avg) * closing quantity, new position =
\* max(old - quantity, 0), the average price reset when the position is 0
LedgerSell(p, quantity, price) ==
    LET closing == Min(quantity, Max(p.quantity, 0))
        new_qty == Max(p.quantity - quantity, 0)
    IN  [p EXCEPT !.quantity = new_qty,
                  !.realized_pnl_day =
                      RatAdd(@, RatTimes(RatSub(price, p.average_entry_price), closing)),
                  !.average_entry_price = IF new_qty = 0 THEN RatZero ELSE @]

\* applyFill(symbol, side, quantity, price, fees) for the one symbol
ApplyFillTo(p, side, quantity, price) ==
    IF side = "buy" THEN LedgerBuy(p, quantity, price) ELSE LedgerSell(p, quantity, price)

\* the engine commits a fill to the ledger
LedgerApplyFill(side, quantity, price) ==
    /\ ledger.n < MaxFills
    /\ LET p == ApplyFillTo(ledger.position, side, quantity, Rat(price, 1))
       IN  ledger' = [position |-> p,
                      hist |-> IF p.quantity = 0 THEN <<>>
                               ELSE Append(ledger.hist, [side |-> side, quantity |-> quantity,
                                                         price |-> price]),
                      n |-> ledger.n + 1]
    /\ UNCHANGED <<busVars, engVars, mgrVars>>

LedgerInit == ledger = [position |-> FlatPosition, hist |-> <<>>, n |-> 0]

BusInit ==
    /\ subs = <<>>
    /\ queues = [q \in QIds |-> <<>>]
    /\ nq = 0
    /\ loopq = [l \in Loops |-> <<>>]
    /\ closed = {}
    /\ pub = [p \in Producers |-> Idle]
    /\ npub = 0
    /\ sent = [q \in QIds |-> {}]
    /\ overlap = FALSE
    /\ subat = [q \in QIds |-> 0]
    /\ gone = [q \in QIds |-> 0 - 1]

EngInit ==
    /\ task = "none"
    /\ running = FALSE
    /\ sub = 0
    /\ pc = "none"
    /\ getq = 0
    /\ positions = [s \in Symbols |-> 0]
    /\ args = NoSig
    /\ ob = NoBook
    /\ order_id = 0
    /\ filled = 0
    /\ remaining = 0
    /\ orders = <<>>
    /\ cancel_sent = 0
    /\ executed = {}
    /\ net_filled = [s \in Symbols |-> 0]
    /\ kill_switch = 0
    /\ realized_day = 0
    /\ late = {}

\* PAPER mode (the default MODE), LONG_ONLY either way
Init ==
    /\ BusInit
    /\ EngInit
    /\ MgrInit
    /\ LedgerInit
    /\ live = FALSE
    /\ long_only \in BOOLEAN

Next ==
    \/ Start
    \/ Stop
    \/ \E i \in Intents : Publish("indicator", i)
    \/ RunGet
    \/ RunContinue
    \/ \E b \in Books : ExecOrderbook(b)
    \/ Crash
    \/ KillSwitchSet
    \/ KillSwitchClear
    \/ LedgerLoss

Spec == Init /\ [][Next]_vars

\* LIVE mode with the default LONG_ONLY
InitLive ==
    /\ BusInit
    /\ EngInit
    /\ MgrInit
    /\ LedgerInit
    /\ live = TRUE
    /\ long_only = TRUE

NextLive ==
    \/ Start
    \/ Stop
    \/ \E i \in LiveIntents : Publish("indicator", i)
    \/ RunGet
    \/ RunContinue
    \/ \E b \in LiveBooks : ExecOrderbook(b)
    \/ ExecCreate
    \/ ExecFetchOrder
    \/ \E b \in LiveBooks : \E timeout \in BOOLEAN : ExecFetchBook(b, timeout)
    \/ \E ok \in BOOLEAN : ExecCancel(ok)
    \/ ExecRecreate
    \/ ExecSleep
    \/ Crash
    \/ \E i \in 1..Len(orders) : \E k \in {ORDER_SIZE, orders[i].amount - orders[i].filled} :
          VenueFill(i, k)

SpecLive == InitLive /\ [][NextLive]_vars

\* PAPER mode without the operator: the engine, its bus and one producer
NextPaper ==
    \/ Start
    \/ Stop
    \/ \E i \in Intents : Publish("indicator", i)
    \/ RunGet
    \/ RunContinue
    \/ \E b \in Books : ExecOrderbook(b)
    \/ Crash

SpecPaper == Init /\ [][NextPaper]_vars

\* PAPER mode over the books the simulated fill is defined on, the engine
\* left running
NextSim ==
    \/ Start
    \/ \E i \in Intents : Publish("indicator", i)
    \/ RunGet
    \/ RunContinue
    \/ \E b \in SimBooks : ExecOrderbook(b)

SpecSim == Init /\ [][NextSim]_vars

InitBus ==
    /\ BusInit
    /\ EngInit
    /\ MgrInit
    /\ LedgerInit
    /\ live = FALSE
    /\ long_only = TRUE

NextBus ==
    \/ \E l \in Loops : BusSubscribe(l)
    \/ \E q \in QIds : BusUnsubscribe(q)
    \/ \E p \in Producers : \E i \in BusIntents : PublishBegin(p, i)
    \/ \E p \in Producers : PublishDeliver(p)
    \/ \E p \in Producers : PublishEnd(p)
    \/ \E l \in Loops : LoopRunPut(l)
    \/ \E l \in Loops : LoopClose(l)

SpecBus == InitBus /\ [][NextBus]_vars

\* the AgentManager and the lifecycle of its workers
InitMgr ==
    /\ BusInit
    /\ EngInit
    /\ MgrInit
    /\ LedgerInit
    /\ live = FALSE
    /\ long_only = TRUE

NextMgr ==
    \/ \E n \in Names : MgrStart(n)
    \/ \E n \in Names : MgrStop(n)
    \/ \E i \in InstIds : Fault(i)
    \/ \E i \in InstIds : TaskCancelled(i)
    \/ \E i \in InstIds : StopReturn(i)
    \/ \E i \in InstIds : StopTaskRuns(i)
    \/ \E n \in Names : UpdateConfig(n)
    \/ StopAllBegin
    \/ StopAllNext

SpecMgr == InitMgr /\ [][NextMgr]_vars

\* the lifecycle of the workers the manager has built, without reconfiguration;
\* the event loop runs every task that is ready: a cancelled task gets its
\* CancelledError and a stop() whose task is done is resumed
NextLife ==
    \/ \E n \in Names : MgrStart(n)
    \/ \E n \in Names : MgrStop(n)
    \/ \E i \in InstIds : Fault(i)
    \/ \E i \in InstIds : TaskCancelled(i)
    \/ \E i \in InstIds : StopReturn(i)

SpecLifeFair ==
    /\ InitMgr
    /\ [][NextLife]_vars
    /\ \A i \in InstIds : WF_vars(TaskCancelled(i)) /\ WF_vars(StopReturn(i))

\* the control surface: the start and stop commands, the operator's kill
\* switch and the event loop running the workers' tasks
NextApi ==
    \/ \E n \in ApiNames : ApiAgentStart(n)
    \/ \E cmd \in {"start_all", "ui_start"} : ApiAgentsStartAll(cmd)
    \/ \E n \in ApiNames : ApiAgentStop(n)
    \/ \E cmd \in {"stop_all", "ui_stop"} : ApiAgentsStopAll(cmd)
    \/ StopAllNext
    \/ \E i \in InstIds : TaskCancelled(i)
    \/ \E i \in InstIds : StopReturn(i)
    \/ KillSwitchSet
    \/ KillSwitchClear

SpecApi == InitMgr /\ [][NextApi]_vars

\* the Position Ledger alone, fed with fills
NextLedger ==
    \E side \in {"buy", "sell"} : \E quantity \in FillQtys : \E price \in FillPrices :
       LedgerApplyFill(side, quantity, price)

SpecLedger == InitMgr /\ [][NextLedger]_vars

\* ================================================================= properties

\* the step of run() that takes an intent off its queue and gates it
GetStep == pc = "get" /\ pc' \in {"ignored", "long_only", "capped", "ob"}

\* the intent that step takes
Consumed == Head(queues[getq])

OpenOrders(side) ==
    {i \in 1..Len(orders) : orders[i].status = "open" /\ orders[i].side = side}

\* C1: in LIVE mode at most one order is open at the venue per (symbol, side),
\* also when cancelling the previous order fails (one symbol is traded)
C1_OneLiveOrderPerSide ==
    \A side \in {"buy", "sell"} : Cardinality(OpenOrders(side)) <= 1

\* C2: while the kill switch is set no intent gets past the gate of run()
\* towards order placement, and the engine never clears the switch itself
C2_KillSwitchBlocks ==
    [][ /\ (kill_switch = 1 /\ GetStep) => pc' # "ob"
        /\ (kill_switch = 1 /\ kill_switch' = 0) => UNCHANGED <<busVars, engVars, orders>> ]_vars

\* C3: the tracked position never exceeds MAX_POSITION; a buy that would take
\* it above is clipped to the headroom, or skipped without any effect when the
\* headroom is zero or less; a fill moves the position by the clipped quantity
C3_PositionCap ==
    [][ /\ \A s \in Symbols : positions[s] <= MAX_POSITION /\ positions'[s] <= MAX_POSITION
        /\ (/\ GetStep
            /\ Consumed.symbol \in Symbols
            /\ Consumed.side = "buy"
            /\ positions[Consumed.symbol] + SigQty(Consumed) > MAX_POSITION)
           => IF MAX_POSITION - positions[Consumed.symbol] <= 0
              THEN pc' = "capped" /\ positions' = positions /\ orders' = orders
              ELSE /\ pc' = "ob"
                   /\ args'.qty = MAX_POSITION - positions[Consumed.symbol]
                   /\ positions' = positions
        /\ (pc = "ob" /\ pc' = "filled" /\ args.side = "buy")
           => positions'[args.symbol] = positions[args.symbol] + args.qty ]_vars

\* C3 happens: a buy was clipped to a headroom smaller than what it asked for
C3_Witness ==
    /\ pc = "ob"
    /\ args.side = "buy"
    /\ positions[args.symbol] > 0
    /\ args.qty = MAX_POSITION - positions[args.symbol]
    /\ args.qty < args.sig_qty

\* C4: in long-only mode a sell taken while the position is zero or less is
\* skipped with no effect, and no sell is ever in execution with such a position
C4_LongOnlySell ==
    /\ [](long_only /\ pc \in ({"ob"} \cup LivePcs) /\ args.side = "sell"
            => positions[args.symbol] > 0)
    /\ [][ (/\ long_only
            /\ GetStep
            /\ Consumed.symbol \in Symbols
            /\ Consumed.side = "sell"
            /\ positions[Consumed.symbol] <= 0)
           => (pc' = "long_only" /\ positions' = positions /\ orders' = orders) ]_vars

\* C4 happens: a sell was skipped by the long-only guard
C4_Witness ==
    /\ long_only
    /\ pc = "long_only"
    /\ \A s \in Symbols : positions[s] <= 0

\* C5: once the realized loss of the day has reached MAX_DAILY_LOSS, an intent
\* taken by run() is rejected, the kill switch is set and the engine stops
C5_DailyLossTrips ==
    [][ (realized_day <= 0 - MAX_DAILY_LOSS /\ GetStep)
           => (pc' # "ob" /\ kill_switch' = 1 /\ running' = FALSE) ]_vars

\* C6: an intent whose quantity is zero or negative is dropped: it never fills
\* and never moves the position
C6_NonPositiveQtyDropped ==
    [][ (pc = "ob" /\ args.sig_qty <= 0) => (pc' # "filled" /\ positions' = positions) ]_vars

\* C7: an intent published while an order of the engine is outstanding is
\* dropped: it is never executed later
C7_LateIntentDropped ==
    pc \in ({"ob"} \cup LivePcs) => args.ts \notin late

\* C8: when the engine is stopped while an order it placed is still open, the
\* cancel of that order has been sent to the venue when stop() returns
C8_StopCancelsOrder ==
    [][ (/\ Outstanding
         /\ orders[order_id].status = "open"
         /\ pc' = "cancelled")
           => cancel_sent' = order_id ]_vars

\* what has arrived or is scheduled to arrive on queue q, in arrival order
ArrivingIn(qs, lq, q) ==
    LET Sigs(l) == [k \in 1..Len(SelectSeq(lq[l], LAMBDA m : m.q = q)) |->
                      SelectSeq(lq[l], LAMBDA m : m.q = q)[k].sig]
    IN  qs[q] \o Sigs(1) \o Sigs(2)

Arriving(q) == ArrivingIn(queues, loopq, q)

TsOf(seq) == {seq[k].ts : k \in 1..Len(seq)}

\* the Signals a publish() in progress has yet to hand to queue q
InFlight(q) ==
    {pub[p].sig.ts : p \in {o \in Producers :
        pub[o].pc = "for" /\ \E k \in 1..Len(pub[o].snap) : pub[o].snap[k].q = q}}

\* C9 as stated: every subscriber queue holds the intents in publish order,
\* whichever producers published them (as long as every publish() call began
\* after the one before it had returned, so that the publish order is total)
C9_FifoAcrossProducers ==
    ~overlap =>
        \A q \in QIds : \A i, j \in 1..Len(queues[q]) :
            i < j => queues[q][i].ts < queues[q][j].ts

\* C9 amended: per subscriber, the intents of one producer arrive in publish
\* order and once each; nothing arrives that was not published to the queue;
\* a subscriber on an open loop gets every intent published to it
C9_FifoPerProducer ==
    \A q \in QIds :
        LET arr == Arriving(q)
        IN  /\ \A i, j \in 1..Len(arr) :
                 (i < j /\ arr[i].reason = arr[j].reason) => arr[i].ts < arr[j].ts
            /\ \A i, j \in 1..Len(arr) : i # j => arr[i].ts # arr[j].ts
            /\ TsOf(arr) \subseteq sent[q]
            /\ (\E k \in 1..Len(subs) : subs[k].q = q /\ subs[k].loop \notin closed)
                 => sent[q] = TsOf(arr) \cup InFlight(q)

\* C9 happens: a subscriber on another loop than the producer has received
\* two intents of that producer
C9_Witness ==
    \E q \in QIds :
        /\ Len(queues[q]) = 2
        /\ queues[q][1].reason = queues[q][2].reason
        /\ \E k \in 1..Len(subs) :
             subs[k].q = q /\ subs[k].loop # ProducerLoop(queues[q][1].reason)

\* the capacity the specification gives a subscriber queue
QueueCapacity == 1

\* C10: a subscriber queue is bounded: when it is full the oldest intent is
\* dropped, so it never holds more than its capacity
C10_QueueBounded ==
    \A q \in QIds : Len(queues[q]) <= QueueCapacity

\* queue q is in SignalBus._subs
Registered(q) == \E k \in 1..Len(subs) : subs[k].q = q

\* C11: a handle gets no intent published before subscribe() returned it, and
\* while it is registered (never unsubscribed, its loop open) every intent
\* whose publish() began after that has arrived on it, is scheduled to arrive,
\* or is still being handed out by its publish() call
C11_SubscribeNoReplayNoLoss ==
    \A q \in 1..nq :
        /\ \A t \in TsOf(Arriving(q)) : t > subat[q]
        /\ (gone[q] < 0 /\ closed = {}) =>
              /\ Registered(q)
              /\ \A t \in (subat[q] + 1)..npub : t \in TsOf(Arriving(q)) \cup InFlight(q)

\* C11 happens: a handle subscribed after the first publish has received a
\* later intent, and only that one
C11_Witness ==
    \E q \in 1..nq :
        /\ subat[q] >= 1
        /\ npub > subat[q]
        /\ Len(queues[q]) = npub - subat[q]

\* a step of unsubscribe() that removes a handle
UnsubscribeStep == Len(subs') < Len(subs) /\ pub' = pub

Count(seq, t) == Cardinality({k \in 1..Len(seq) : seq[k].ts = t})

\* a step of the for loop of producer p's publish()
DeliverStep(p) ==
    /\ pub[p].pc = "for"
    /\ pub'[p].pc = "for"
    /\ Len(pub'[p].snap) < Len(pub[p].snap)

\* the return of producer p's publish()
EndStep(p) == pub[p].pc = "for" /\ pub'[p].pc = "idle"

StartStep == nq' = nq + 1 /\ sub' = nq + 1

\* C14: start() on a worker that is running is a no-op: no second task, and the
\* subscribers of the bus and the engine's handle stay as they are
C14_StartWhileRunningNoOp ==
    [][ (task = "running" /\ StartStep) =>
            UNCHANGED <<task, running, pc, getq, subs, sub>> ]_vars

\* stop() on instance i returns from its await
StopReturnStep(i) ==
    /\ i \in 1..Len(insts)
    /\ insts[i].stop = "await"
    /\ insts'[i].stop = "none"

\* C15 as stated: whenever stop() returns, the worker's loop is not executing
\* and its status is not running
C15_StopReturnsNotRunning ==
    [][ \A i \in InstIds :
           StopReturnStep(i) =>
              insts'[i].task # "running" /\ Status(insts'[i]) # "running" ]_vars

\* C15: stop() on a worker in any state eventually returns, and when it
\* returns, unless start() was called on the worker while stop() was waiting,
\* the worker's loop is no longer executing and its status is not running
C15_StopReturnsLoopEnded ==
    /\ [][ \A i \in InstIds :
              (StopReturnStep(i) /\ ~insts[i].restarted) =>
                 insts'[i].task # "running" /\ Status(insts'[i]) = "stopped" ]_vars
    /\ \A i \in InstIds :
          (i <= Len(insts) /\ insts[i].stop # "none")
             ~> (i <= Len(insts) /\ insts[i].stop = "none")

\* C15 happens: stop() has cancelled the task of a running worker and returned
C15_Witness ==
    \E i \in 1..Len(insts) :
       insts[i].ended = "cancelled" /\ insts[i].stop = "none" /\ insts[i].task = "done"

\* run() of instance i is left by an exception other than the cancellation
CrashStep(i) ==
    /\ i \in 1..Len(insts)
    /\ insts[i].ended # "crashed"
    /\ insts'[i].ended = "crashed"

\* C16: a fault in one worker is contained: its task ends without an
\* exception for anyone awaiting it, a stop() waiting on it is not disturbed,
\* and every other worker and the manager's table stay as they are
C16_FaultContained ==
    [][ \A i \in InstIds :
           CrashStep(i) =>
              /\ insts'[i].task = "done"
              /\ insts'[i].stop = insts[i].stop
              /\ Len(insts') = Len(insts)
              /\ \A j \in 1..Len(insts) : j # i => insts'[j] = insts[j]
              /\ agents' = agents ]_vars

\* C16 happens: one worker has crashed while another one is running
C16_Witness ==
    \E i, j \in 1..Len(insts) :
       /\ insts[i].ended = "crashed"
       /\ Status(insts[j]) = "running"

\* C17: the status of a worker whose loop crashed differs from the status of a
\* worker that was stopped by stop() or never started
C17_ErroredDistinct ==
    \A i, j \in 1..Len(insts) :
       ( /\ insts[i].task = "done" /\ insts[i].ended = "crashed"
         /\ insts[j].task # "running" /\ insts[j].ended # "crashed" )
          => Status(insts[i]) # Status(insts[j])

\* C18: a fault of a Gateway or Adapter call never terminates the engine: its
\* running loop ends only when stop() cancels it
C18_FaultNeverTerminates ==
    [][ (task = "running" /\ task' # "running") => pc' = "cancelled" ]_vars

\* C19: when update_config replaces the instance of the agent it was called
\* for, the loop of the old instance, the one it stops, has exited
C19_OldStoppedBeforeReplacement ==
    [][ \A n \in Names :
           (agents'[n] # agents[n] /\ insts'[agents[n]].stop # "none") =>
              insts'[agents[n]].task # "running" ]_vars

\* the poll loop places the replacement of the order it has just cancelled
RepriceStep ==
    /\ pc = "recreate"
    /\ pc' = "sleep"
    /\ Len(orders') = Len(orders) + 1

\* C20: the replacement placed at a reprice is for the quantity of the replaced
\* order that is still unfilled: a part the venue has filled is not ordered
\* again
C20_ReplacementForUnfilled ==
    [][ RepriceStep =>
           orders'[Len(orders')].amount =
              orders[order_id].amount - orders[order_id].filled ]_vars

\* _execute_post_only gets a book it does not trade on: the spread is above
\* the ceiling, or the book is empty or crossed
WideBookStep ==
    \E b \in Books : SpreadTooWide(BookMidSpread(b)) /\ ExecOrderbook(b)

\* C21: an execution that yields zero fill changes no position, no PnL, no
\* kill-switch and no order state, and run() goes on to the next intent
\* without the line that records a trade
C21_ZeroFillNoMutation ==
    [][ WideBookStep =>
           /\ UNCHANGED <<positions, realized_day, kill_switch, orders>>
           /\ pc' = "nofill" ]_vars

\* C21 happens: a zero fill was returned while a position is held
C21_Witness ==
    pc = "nofill" /\ args.qty > 0 /\ positions[args.symbol] > 0

\* bid 100.00 / ask 100.05 in ticks of 0.0005: a spread of 5 bps
Book5bps == [bid |-> 200000, ask |-> 200100]

\* C22: in PAPER mode a buy on the book 100.00 / 100.05 is filled in full as
\* maker at a price strictly between 100.00 and the mid 100.025
C22_FiveBpsBookFills ==
    [][ (~live /\ args.side = "buy" /\ args.qty > 0 /\ ExecOrderbook(Book5bps)) =>
           LET f == PaperFill(args.side, args.qty, BookMidSpread(Book5bps))
           IN  /\ pc' = "filled"
               /\ positions'[args.symbol] = positions[args.symbol] + f.filled
               /\ f.filled = args.qty
               /\ f.maker
               /\ f.avg_px > Book5bps.bid
               /\ f.avg_px < BookMidSpread(Book5bps).mid ]_vars

\* C23: with the default LONG_ONLY the position run() tracks is never
\* negative: a sell of more than is held leaves it at zero
C23_PositionNeverNegative ==
    long_only => \A s \in Symbols : positions[s] >= 0

\* the Execution Engine instances whose consume loop is running
RunningEngines ==
    {i \in 1..Len(insts) :
        insts[i].name = "execution" /\ insts[i].task = "running" /\ ~insts[i].cancelling}

\* C24: at any time at most one consume loop of the Execution Engine is
\* running, whatever the manager has been asked to do
C24_SingleConsumeLoop == Cardinality(RunningEngines) <= 1

\* the fills k..m of a history
Fills(h, k, m) == [j \in 1..(m - k + 1) |-> h[k + j - 1]]

RECURSIVE SumQ(_)
SumQ(h) == IF Len(h) = 0 THEN 0 ELSE Head(h).quantity + SumQ(Tail(h))

RECURSIVE SumPQ(_)
SumPQ(h) == IF Len(h) = 0 THEN 0 ELSE Head(h).price * Head(h).quantity + SumPQ(Tail(h))

\* several fills reported as one: their total quantity at their mean price
Batch(h) == [quantity |-> SumQ(h), price |-> Rat(SumPQ(h), SumQ(h))]

\* the position after the buy fills of h, applied in two batches split after
\* the k-th
InTwoBatches(h, k) ==
    LET b1 == Batch(Fills(h, 1, k))
        b2 == Batch(Fills(h, k + 1, Len(h)))
    IN  LedgerBuy(LedgerBuy(FlatPosition, b1.quantity, b1.price), b2.quantity, b2.price)

BuysOnly(h) == \A k \in 1..Len(h) : h[k].side = "buy"

\* C25: after buy fills only, from flat, the average entry price is the
\* volume-weighted mean of the fill prices, and applying the same fills in two
\* batches, wherever they are split, gives the same position and average
C25_AverageIsVwap ==
    (Len(ledger.hist) > 0 /\ BuysOnly(ledger.hist)) =>
        /\ ledger.position.quantity = SumQ(ledger.hist)
        /\ ledger.position.average_entry_price =
              Rat(SumPQ(ledger.hist), SumQ(ledger.hist))
        /\ \A k \in 1..(Len(ledger.hist) - 1) :
              LET b == InTwoBatches(ledger.hist, k)
              IN  /\ b.quantity = ledger.position.quantity
                  /\ b.average_entry_price = ledger.position.average_entry_price

\* C25 happens: three buy fills at three different prices were applied
C25_Witness ==
    /\ Len(ledger.hist) = 3
    /\ BuysOnly(ledger.hist)
    /\ Cardinality({ledger.hist[k].price : k \in 1..3}) = 3
    /\ ledger.position.average_entry_price.d > 1

\* applyFill is called with a sell of exactly the held quantity
SellAllStep(quantity, price) ==
    /\ quantity = ledger.position.quantity
    /\ LedgerApplyFill("sell", quantity, price)

\* applyFill is called with a fill that closes nothing: a buy, or a sell while
\* flat
NotClosingStep ==
    \E side \in {"buy", "sell"} : \E quantity \in FillQtys : \E price \in FillPrices :
       /\ side = "buy" \/ ledger.position.quantity = 0
       /\ LedgerApplyFill(side, quantity, price)

\* C26: a sell of exactly the held quantity leaves the position at 0 with the
\* average price reset to 0 and adds (sell price - prior average) * quantity
\* to realized PnL; a fill that reduces no position leaves realized PnL alone
C26_SellAllRealizes ==
    [][ /\ \A quantity \in FillQtys : \A price \in FillPrices :
              SellAllStep(quantity, price) =>
                 /\ ledger'.position.quantity = 0
                 /\ ledger'.position.average_entry_price = RatZero
                 /\ ledger'.position.realized_pnl_day =
                       RatAdd(ledger.position.realized_pnl_day,
                              RatTimes(RatSub(Rat(price, 1),
                                              ledger.position.average_entry_price),
                                       quantity))
        /\ NotClosingStep =>
              ledger'.position.realized_pnl_day = ledger.position.realized_pnl_day ]_vars

\* C26 happens: 3 bought at 100 were sold, all 3 in one fill, at 105
C26_Witness ==
    /\ ledger.n = 2
    /\ ledger.position.quantity = 0
    /\ ledger.position.realized_pnl_day = Rat(15, 1)

\* AgentManager.list(): the names of the entries it returns
ListedNames == {insts[agents[n]].name : n \in DOMAIN agents}

\* C27: the listing always has an entry for each of the four agents
C27_ListHasFourAgents ==
    {"market-scanner", "depth-l1l3", "indicator", "execution"} \subseteq ListedNames

\* C28: an intent enters _execute_post_only at most once, whatever start(),
\* stop() and publish() calls came before
C28_ExecutedAtMostOnce ==
    [][ (GetStep /\ pc' = "ob") => Head(queues[getq]).ts \notin executed ]_vars

\* stop_all() returns
StopAllReturns == stopall = Len(NameSeq) /\ stopall' = 0

\* C29: when stop_all() returns, no loop of any instance the manager has ever
\* built is running
C29_StopAllStopsAll ==
    [][ StopAllReturns => \A i \in 1..Len(insts') : insts'[i].task # "running" ]_vars

\* the quantity the venue has filled, over a sequence of orders
RECURSIVE SumFilled(_)
SumFilled(os) == IF Len(os) = 0 THEN 0 ELSE Head(os).filled + SumFilled(Tail(os))

\* the engine was started once and has applied no fill yet: every order at
\* the venue belongs to the _execute_post_only call in progress
FirstCall == nq = 1 /\ pc \in LivePcs /\ positions[args.symbol] = 0

\* the poll loop sees its order filled and _execute_post_only returns
LiveReturnStep == pc = "book" /\ pc' = "filled"

\* C30: in live mode the venue never fills more than the intent's quantity
\* over the original order and its replacements, and when the call returns
\* the quantity it reports and the quantity added to the position are what
\* the venue has filled
C30_FilledIsIntentQty ==
    [][ FirstCall =>
           /\ SumFilled(orders) <= args.qty
           /\ LiveReturnStep =>
                 /\ filled = SumFilled(orders)
                 /\ positions'[args.symbol] - positions[args.symbol] = SumFilled(orders) ]_vars

\* _execute_post_only in PAPER mode trades on the book b
SimFillStep(b) ==
    ~live /\ ~SpreadTooWide(BookMidSpread(b)) /\ ExecOrderbook(b)

\* C31: in PAPER mode, on every valid book within the spread ceiling and for
\* either side, the fill is a maker fill of the whole requested quantity at
\* the post-only limit price, strictly below mid for a buy and strictly above
\* mid for a sell, with zero fees; the taker branch is not taken, and run()
\* applies the fill
C31_SimAlwaysMaker ==
    [][ \A b \in SimBooks : SimFillStep(b) =>
           LET ms == BookMidSpread(b)
               f == PaperFill(args.side, args.qty, ms)
           IN  /\ f.maker
               /\ f.filled = args.qty
               /\ f.fees = 0
               /\ f.avg_px = PostOnlyPrice(args.side, ms)
               /\ args.side = "buy" => (f.avg_px < ms.mid /\ f.avg_px > b.bid)
               /\ args.side = "sell" => (f.avg_px > ms.mid /\ f.avg_px < b.ask)
               /\ args.qty > 0 =>
                     (pc' = "filled" /\ positions' = ApplyFill(positions, args)) ]_vars

\* C31 happens: a sell was filled in PAPER mode after a buy had been
C31_Witness ==
    /\ ~live
    /\ pc = "filled"
    /\ args.side = "sell"
    /\ args.qty > 0
    /\ positions[args.symbol] = 0

\* C32: the position run() checks against survives a stop()/start() cycle: it
\* is the net quantity filled since the process began, so the net quantity
\* bought of a symbol never exceeds MAX_POSITION, restarts included
C32_PositionSurvivesRestart ==
    \A s \in Symbols :
        /\ task = "running" => positions[s] = net_filled[s]
        /\ net_filled[s] <= MAX_POSITION

\* exchange.create_order returns: an order, initial or replacement, is placed
PlaceStep == Len(orders') = Len(orders) + 1

\* C33: every order the engine places, initial or replacement, carries a limit
\* price computed from a valid book (0 < best bid < best ask): from an empty or
\* crossed book refreshed in the poll loop no replacement is placed
C33_OrdersFromValidBook ==
    [][ PlaceStep =>
           /\ BookMidSpread(ob).valid
           /\ orders'[Len(orders')].price = PostOnlyPrice(args.side, BookMidSpread(ob))
           /\ orders'[Len(orders')].price > ob.bid
           /\ orders'[Len(orders')].price < ob.ask ]_vars

\* a start command of the control surface is handled
StartCommandStep ==
    \/ \E n \in ApiNames : ApiAgentStart(n)
    \/ \E cmd \in {"start_all", "ui_start"} : ApiAgentsStartAll(cmd)

\* C34: while the kill-switch gauge is 1 every start command (one agent,
\* start_all, the UI alias) is refused and starts no agent: every agent's task
\* and running state stay as they were; a stop command is accepted whatever
\* the gauge says: the manager is called, and the stop of one agent clears its
\* running flag
C34_KillSwitchRefusesStart ==
    [][ /\ (kill_switch = 1 /\ StartCommandStep) =>
              /\ api'.outcome \in {"refused", "not_found"}
              /\ insts' = insts
        /\ \A n \in Names : ApiAgentStop(n) =>
              /\ api'.outcome = "called"
              /\ ~insts'[agents[n]].running
        /\ \A cmd \in {"stop_all", "ui_stop"} : ApiAgentsStopAll(cmd) =>
              /\ api'.outcome = "called"
              /\ stopall' = 1 ]_vars

\* C34 happens: the UI start alias was refused under the kill switch while
\* one agent was running and another one was not
C34_Witness ==
    /\ kill_switch = 1
    /\ api = Call("ui_start", "", "refused")
    /\ \E n \in Names : Status(insts[agents[n]]) = "running"
    /\ \E n \in Names : Status(insts[agents[n]]) = "stopped"

====
